---- MODULE Spec2Model ----
(***************************************************************************)
(* clog: a context-propagated facade over log/slog.                        *)
(*                                                                         *)
(* The state is the process-wide default logger, the table of contexts     *)
(* built so far (each a node of the immutable context chain, with the      *)
(* value stored under clog's private contextKey when there is one), and    *)
(* the outcome of the most recent call (panic, return value, the record    *)
(* handed to the resolved logger's sink).  A *slog.Logger is modelled by   *)
(* the value it points to, with a distinguished nil pointer.  hist is a    *)
(* history variable: the derivations made so far, kept where a property    *)
(* speaks about the arguments of earlier calls.                            *)
(***************************************************************************)
EXTENDS Integers, Sequences, FiniteSets, TLC

VARIABLES defaultLogger, ctxs, last, hist

vars == <<defaultLogger, ctxs, last, hist>>

\* ------------------------------------------------------------------ bounds
\* contexts alive in Spec (context.Background() included)
MaxCtx == 3
\* contexts alive in SpecAttrs (context.Background() included)
MaxChain == 4
\* longest attribute list handed to WithAttrs in SpecCoerce
MaxAttrs == 2

\* ------------------------------------------------------------ slog levels
LevelDebug == -4
LevelInfo == 0
LevelWarn == 4
LevelError == 8

Levels == {LevelDebug, LevelInfo, LevelWarn, LevelError}

\* ------------------------------------------------------------ slog values
\* slog.Value: a kind, and the payload the kind selects.  dyn is the dynamic
\* type of the held interface for KindAny and KindLogValuer.
Val(kind, dyn, num, str, grp) ==
    [kind |-> kind, dyn |-> dyn, num |-> num, str |-> str, grp |-> grp]

StringValue(s) == Val("String", "", 0, s, <<>>)
Int64Value(n) == Val("Int64", "", n, "", <<>>)
Uint64Value(n) == Val("Uint64", "", n, "", <<>>)
BoolValue(n) == Val("Bool", "", n, "", <<>>)
DurationValue(n) == Val("Duration", "", n, "", <<>>)
Float64Value(n) == Val("Float64", "", n, "", <<>>)

\* slog.Attr
Attr(k, v) == [key |-> k, value |-> v]

isEmptyGroup(v) == v.kind = "Group" /\ Len(v.grp) = 0

\* slog.GroupValue: a group of the attributes, the empty groups removed.
GroupValue(as) ==
    Val("Group", "", 0, "", SelectSeq(as, LAMBDA a : ~isEmptyGroup(a.value)))

\* A Go value of static type any: its dynamic type and payload.  A value of
\* dynamic type slog.Value carries the Value's kind and dyn, one of dynamic
\* type slog.Attr the key as well.
GoAny(type, num, str) ==
    [type |-> type, kind |-> "", dyn |-> "", key |-> "", num |-> num,
     str |-> str, grp |-> <<>>]

GoString(s) == GoAny("string", 0, s)
GoNil == GoAny("nil", 0, "")
GoAttrs(as) == [GoAny("[]Attr", 0, "") EXCEPT !.grp = as]
GoValue(v) ==
    [type |-> "Value", kind |-> v.kind, dyn |-> v.dyn, key |-> "",
     num |-> v.num, str |-> v.str, grp |-> v.grp]

\* dynamic types that implement slog.LogValuer
LogValuerTypes == {"secret"}

\* slog.Value.Any: the Go value a Value holds.
ValueAny(v) ==
    CASE v.kind = "String" -> GoAny("string", 0, v.str)
      [] v.kind = "Int64" -> GoAny("int64", v.num, "")
      [] v.kind = "Uint64" -> GoAny("uint64", v.num, "")
      [] v.kind = "Bool" -> GoAny("bool", v.num, "")
      [] v.kind = "Duration" -> GoAny("time.Duration", v.num, "")
      [] v.kind = "Float64" -> GoAny("float64", v.num, "")
      [] v.kind = "Group" -> GoAttrs(v.grp)
      [] v.kind = "LogValuer" -> GoAny(v.dyn, v.num, v.str)
      [] OTHER -> IF v.dyn = "kind" THEN GoAny("Kind", v.num, v.str)
                  ELSE GoAny(v.dyn, v.num, v.str)

\* slog.AnyValue: the type switch that coerces a Go value to a Value.
AnyValue(x) ==
    CASE x.type = "string" -> StringValue(x.str)
      [] x.type \in {"int", "int8", "int16", "int32", "int64"} -> Int64Value(x.num)
      [] x.type \in {"uint", "uint8", "uint16", "uint32", "uint64", "uintptr"} ->
            Uint64Value(x.num)
      [] x.type = "bool" -> BoolValue(x.num)
      [] x.type = "time.Duration" -> DurationValue(x.num)
      [] x.type \in {"float64", "float32"} -> Float64Value(x.num)
      [] x.type = "[]Attr" -> GroupValue(x.grp)
      [] x.type = "Kind" -> Val("Any", "kind", x.num, x.str, <<>>)
      [] x.type = "Value" -> Val(x.kind, x.dyn, x.num, x.str, x.grp)
      [] x.type \in LogValuerTypes -> Val("LogValuer", x.type, x.num, x.str, <<>>)
      [] OTHER -> Val("Any", x.type, x.num, x.str, <<>>)

badKey == "!BADKEY"

Tail2(s) == SubSeq(s, 3, Len(s))

\* slog's argsToAttrSlice: alternating key, value; an Attr stands for itself;
\* a trailing key or a non-string key becomes a !BADKEY attribute.
RECURSIVE argsToAttrSlice(_)
argsToAttrSlice(args) ==
    IF Len(args) = 0 THEN <<>>
    ELSE LET x == Head(args) IN
      CASE x.type = "string" ->
             IF Len(args) = 1 THEN <<Attr(badKey, StringValue(x.str))>>
             ELSE <<Attr(x.str, AnyValue(args[2]))>> \o argsToAttrSlice(Tail2(args))
        [] x.type = "Attr" ->
             <<Attr(x.key, Val(x.kind, x.dyn, x.num, x.str, x.grp))>>
                \o argsToAttrSlice(Tail(args))
        [] OTHER -> <<Attr(badKey, AnyValue(x))>> \o argsToAttrSlice(Tail(args))

\* ----------------------------------------------------------- slog loggers
\* A *slog.Logger: nil, or a logger over a handler that writes to sink at
\* level and above, with its pre-bound attributes and its open groups.
NilLogger ==
    [nil |-> TRUE, sink |-> "", level |-> 0, attrs |-> <<>>, groups |-> <<>>]

NewLogger(sink, level) ==
    [nil |-> FALSE, sink |-> sink, level |-> level, attrs |-> <<>>, groups |-> <<>>]

\* an attribute as a handler holds or writes it: under the groups open when
\* it was added
Qualified(groups, a) == [path |-> groups, key |-> a.key, value |-> a.value]

QualifyAll(groups, as) == [i \in 1..Len(as) |-> Qualified(groups, as[i])]

Ok(l) == [panicked |-> FALSE, logger |-> l]
Panic == [panicked |-> TRUE, logger |-> NilLogger]

\* (*slog.Logger).With
LoggerWith(l, args) ==
    IF Len(args) = 0 THEN Ok(l)
    ELSE IF l.nil THEN Panic
    ELSE Ok([l EXCEPT !.attrs = @ \o QualifyAll(l.groups, argsToAttrSlice(args))])

\* (*slog.Logger).WithGroup
LoggerWithGroup(l, name) ==
    IF name = "" THEN Ok(l)
    ELSE IF l.nil THEN Panic
    ELSE Ok([l EXCEPT !.groups = Append(@, name)])

\* (*slog.Logger).Enabled
LoggerEnabled(l, level) ==
    [panicked |-> l.nil, ret |-> ~l.nil /\ level >= l.level]

NoRec == [level |-> 0, msg |-> "", attrs |-> <<>>]

NoWrite == [panicked |-> FALSE, n |-> 0, sink |-> "", rec |-> NoRec]

\* what reaches the sink when the logger is handed a record's attributes
Handle(l, level, msg, as) ==
    IF l.nil THEN [NoWrite EXCEPT !.panicked = TRUE]
    ELSE IF ~LoggerEnabled(l, level).ret THEN NoWrite
    ELSE [panicked |-> FALSE, n |-> 1, sink |-> l.sink,
          rec |-> [level |-> level, msg |-> msg,
                   attrs |-> l.attrs \o QualifyAll(l.groups, as)]]

\* (*slog.Logger).Log and its fixed-level forms
LoggerLog(l, level, msg, args) == Handle(l, level, msg, argsToAttrSlice(args))

\* (*slog.Logger).LogAttrs
LoggerLogAttrs(l, level, msg, attrs) == Handle(l, level, msg, attrs)

\* --------------------------------------------------------------- contexts
Background == 1

\* a context node: its parent (0 for context.Background()), and the logger
\* stored under contextKey{} when the node was made by WithLogger
CtxNode(parent, bound, logger) ==
    [parent |-> parent, bound |-> bound, logger |-> logger]

Ctxs == 1..Len(ctxs)

\* ctx.Value(contextKey{}).(*slog.Logger): the nearest node that stores a
\* value under the key; ok also when the stored pointer is nil.
RECURSIVE CtxValue(_, _)
CtxValue(cs, c) ==
    IF cs[c].bound THEN [ok |-> TRUE, logger |-> cs[c].logger]
    ELSE IF cs[c].parent = 0 THEN [ok |-> FALSE, logger |-> NilLogger]
    ELSE CtxValue(cs, cs[c].parent)

\* faulty variant: the fallback is the logger the package started with
LoggerFrom_InitialDefault(cs, def, c) ==
    LET v == CtxValue(cs, c) IN IF v.ok THEN v.logger ELSE NewLogger("stderr", LevelInfo)

\* faulty variant: a stored nil pointer counts as nothing stored
LoggerFrom_NilFallsBack(cs, def, c) ==
    LET v == CtxValue(cs, c) IN IF v.ok /\ ~v.logger.nil THEN v.logger ELSE def

LoggerFrom(cs, def, c) ==
    LET v == CtxValue(cs, c) IN IF v.ok THEN v.logger ELSE def

loggerFromContext(c) == LoggerFrom(ctxs, defaultLogger, c)

\* faulty variant: the logger is stored into the parent as well
WithLoggerCtx_InPlace(cs, c, l) ==
    Append([cs EXCEPT ![c] = CtxNode(@.parent, TRUE, l)], CtxNode(c, TRUE, l))

\* context.WithValue(ctx, contextKey{}, logger): a new node, the rest as is
WithLoggerCtx(cs, c, l) == Append(cs, CtxNode(c, TRUE, l))

\* ------------------------------------------------------------- call record
\* op and its outcome: ctx is the context the call was made on (for a
\* derivation, the context it returned, 0 when it panicked), logger the
\* logger argument of SetDefault and WithLogger, n the number of records
\* handed to sink, rec the record.
Call(op, c, level) ==
    [op |-> op, ctx |-> c, level |-> level, logger |-> NilLogger,
     panicked |-> FALSE, ret |-> FALSE, n |-> 0, sink |-> "", rec |-> NoRec]

Wrote(op, c, level, w) ==
    [Call(op, c, level) EXCEPT !.panicked = w.panicked, !.n = w.n,
                               !.sink = w.sink, !.rec = w.rec]

\* ------------------------------------------------------------------- init
\* slog.Default(): text to standard error at Info and above
Baseline == NewLogger("stderr", LevelInfo)

Init ==
    /\ defaultLogger = Baseline
    /\ ctxs = <<CtxNode(0, FALSE, NilLogger)>>
    /\ last = Call("init", 0, 0)
    /\ hist = <<>>

\* ---------------------------------------------------------------- actions
SetDefault(l) ==
    /\ defaultLogger' = l
    /\ last' = [Call("SetDefault", 0, 0) EXCEPT !.logger = l]
    /\ UNCHANGED ctxs

WithLogger(c, l) ==
    /\ ctxs' = WithLoggerCtx(ctxs, c, l)
    /\ last' = [Call("WithLogger", Len(ctxs) + 1, 0) EXCEPT !.logger = l]
    /\ UNCHANGED defaultLogger

\* a derivation that binds r.logger through WithLogger, or panics before it
Derive(op, c, r) ==
    /\ ctxs' = IF r.panicked THEN ctxs ELSE WithLoggerCtx(ctxs, c, r.logger)
    /\ last' = [Call(op, IF r.panicked THEN 0 ELSE Len(ctxs) + 1, 0) EXCEPT
                    !.panicked = r.panicked]
    /\ UNCHANGED defaultLogger

\* faulty variant: the group is opened on the default logger
WithGroupLogger_Default(c, group) == LoggerWithGroup(defaultLogger, group)

WithGroupLogger(c, group) == LoggerWithGroup(loggerFromContext(c), group)

WithGroup(c, group) == Derive("WithGroup", c, WithGroupLogger(c, group))

\* faulty variant: the keys are left out of the args
AttrsToArgs_ValuesOnly(attrs) == [i \in 1..Len(attrs) |-> ValueAny(attrs[i].value)]

\* the args WithAttrs builds: attr.Key, attr.Value.Any() for each attribute
AttrsToArgs(attrs) ==
    [i \in 1..(2 * Len(attrs)) |->
        IF i % 2 = 1 THEN GoString(attrs[(i + 1) \div 2].key)
        ELSE ValueAny(attrs[i \div 2].value)]

WithAttrsLogger(c, attrs) == LoggerWith(loggerFromContext(c), AttrsToArgs(attrs))

WithAttrs(c, attrs) == Derive("WithAttrs", c, WithAttrsLogger(c, attrs))

\* faulty variant: an unbound context derives from the logger the package started with
WithArgsLogger_Baseline(c, args) ==
    LoggerWith(IF CtxValue(ctxs, c).ok THEN loggerFromContext(c)
               ELSE NewLogger("stderr", LevelInfo), args)

\* faulty variant: the attributes are added to the default logger
WithArgsLogger_Default(c, args) == LoggerWith(defaultLogger, args)

WithArgsLogger(c, args) == LoggerWith(loggerFromContext(c), args)

With(c, args) == Derive("With", c, WithArgsLogger(c, args))

\* the host's own derivations (other keys, cancellation): a node that stores
\* nothing under contextKey{}
HostDerive(c) ==
    /\ ctxs' = Append(ctxs, CtxNode(c, FALSE, NilLogger))
    /\ last' = Call("context", Len(ctxs) + 1, 0)
    /\ UNCHANGED defaultLogger

\* faulty variant: the default logger is asked
EnabledResult_Default(c, level) == LoggerEnabled(defaultLogger, level)

EnabledResult(c, level) == LoggerEnabled(loggerFromContext(c), level)

Enabled(c, level) ==
    /\ last' = [Call("Enabled", c, level) EXCEPT
                    !.panicked = EnabledResult(c, level).panicked,
                    !.ret = EnabledResult(c, level).ret]
    /\ UNCHANGED <<defaultLogger, ctxs>>

\* faulty variant: the record goes to the default logger
LogResult_Default(c, level, msg, args) == LoggerLog(defaultLogger, level, msg, args)

LogResult(c, level, msg, args) == LoggerLog(loggerFromContext(c), level, msg, args)

LogAttrsResult(c, level, msg, attrs) ==
    LoggerLogAttrs(loggerFromContext(c), level, msg, attrs)

Emit(op, c, level, w) ==
    /\ last' = Wrote(op, c, level, w)
    /\ UNCHANGED <<defaultLogger, ctxs>>

Debug(c, msg, args) == Emit("Debug", c, LevelDebug, LogResult(c, LevelDebug, msg, args))

Info(c, msg, args) == Emit("Info", c, LevelInfo, LogResult(c, LevelInfo, msg, args))

Warn(c, msg, args) == Emit("Warn", c, LevelWarn, LogResult(c, LevelWarn, msg, args))

Error(c, msg, args) == Emit("Error", c, LevelError, LogResult(c, LevelError, msg, args))

Log(c, level, msg, args) == Emit("Log", c, level, LogResult(c, level, msg, args))

LogAttrs(c, level, msg, attrs) ==
    Emit("LogAttrs", c, level, LogAttrsResult(c, level, msg, attrs))

EmitOps == {"Debug", "Info", "Warn", "Error", "Log", "LogAttrs"}

\* ------------------------------------------------------- Spec: the facade
\* the loggers a caller constructs and hands to SetDefault and WithLogger
Buf1 == NewLogger("buf1", LevelDebug)
Buf2 == NewLogger("buf2", LevelWarn)

K1V1 == <<GoString("k1"), GoString("v1")>>
K2V2 == <<GoString("k2"), GoString("v2")>>
A1 == <<Attr("k1", StringValue("v1"))>>
CallArgs == <<GoString("k3"), GoString("v3")>>
CallAttrs == <<Attr("k3", StringValue("v3"))>>

Next ==
    /\ UNCHANGED hist
    /\ \/ \E l \in {NilLogger, Buf1} : SetDefault(l)
       \/ /\ Len(ctxs) < MaxCtx
          /\ \E c \in Ctxs :
               \/ \E l \in {NilLogger, Buf2} : WithLogger(c, l)
               \/ \E a \in {<<>>, K1V1} : With(c, a)
               \/ WithAttrs(c, A1)
               \/ \E g \in {"", "g"} : WithGroup(c, g)
               \/ HostDerive(c)
       \/ \E c \in Ctxs :
               \/ \E lv \in {LevelInfo, LevelWarn} : Enabled(c, lv)
               \/ Debug(c, "msg", CallArgs)
               \/ Info(c, "msg", CallArgs)
               \/ Warn(c, "msg", CallArgs)
               \/ Error(c, "msg", CallArgs)
               \/ Log(c, LevelWarn, "msg", CallArgs)
               \/ LogAttrs(c, LevelInfo, "msg", CallAttrs)

Spec == Init /\ [][Next]_vars

\* ------------------------------------- SpecAttrs: one chain of derivations
\* ctx = With(ctx, ...); ctx = WithGroup(ctx, ...); ... from the background
\* context under the baseline default: context k + 1 is made from context k
\* by the derivation hist[k].
Made(op, args, attrs, group) ==
    [op |-> op, args |-> args, attrs |-> attrs, group |-> group]

Remember(e) == hist' = IF Len(ctxs') > Len(ctxs) THEN Append(hist, e) ELSE hist

NextAttrs ==
    \/ /\ Len(ctxs) < MaxChain
       /\ \/ \E a \in {<<>>, K1V1, K2V2} :
                With(Len(ctxs), a) /\ Remember(Made("With", a, <<>>, ""))
          \/ WithAttrs(Len(ctxs), A1) /\ Remember(Made("WithAttrs", <<>>, A1, ""))
          \/ \E g \in {"", "g", "h"} :
                WithGroup(Len(ctxs), g) /\ Remember(Made("WithGroup", <<>>, <<>>, g))
    \/ /\ UNCHANGED hist
       /\ \E c \in Ctxs :
             \/ Info(c, "msg", CallArgs)
             \/ LogAttrs(c, LevelInfo, "msg", CallAttrs)

SpecAttrs == Init /\ [][NextAttrs]_vars

\* ------------------------------- SpecCoerce: WithAttrs against With
\* the attribute values the slog constructors build
InnerAttr == Attr("in", StringValue("x"))

AttrValues ==
    { StringValue("v"), StringValue(""), Int64Value(7), Uint64Value(7), BoolValue(1),
      DurationValue(5), Float64Value(2),
      GroupValue(<<InnerAttr>>), GroupValue(<<>>),
      AnyValue(GoNil), AnyValue(GoAny("error", 0, "boom")),
      AnyValue(GoAny("Kind", 5, "")), AnyValue(GoAny("secret", 0, "pw")) }

AttrDomain == { Attr(k, v) : k \in {"k1", ""}, v \in AttrValues }

AttrLists == UNION { [1..n -> AttrDomain] : n \in 0..MaxAttrs }

\* key(a1), value(a1), ..., key(an), value(an)
KeysAndValues(attrs) ==
    [i \in 1..(2 * Len(attrs)) |->
        IF i % 2 = 1 THEN GoString(attrs[(i + 1) \div 2].key)
        ELSE GoValue(attrs[i \div 2].value)]

\* WithAttrs(background, attrs), then With(background, key, value, ...) of
\* the same attributes, then emissions through both
NextCoerce ==
    \/ /\ Len(ctxs) = 1
       /\ \E as \in AttrLists :
             WithAttrs(Background, as) /\ Remember(Made("WithAttrs", <<>>, as, ""))
    \/ /\ Len(ctxs) = 2
       /\ With(Background, KeysAndValues(hist[1].attrs))
       /\ UNCHANGED hist
    \/ /\ Len(ctxs) = 3
       /\ UNCHANGED hist
       /\ \E c \in {2, 3} : Info(c, "msg", CallArgs)

SpecCoerce == Init /\ [][NextCoerce]_vars

\* ----------------------------------------------- reading the context chain
\* c, its parent, ... up to context.Background()
RECURSIVE PathUp(_, _)
PathUp(cs, c) == IF c = 0 THEN <<>> ELSE <<c>> \o PathUp(cs, cs[c].parent)

\* some self-or-ancestor of c stores a value under contextKey{}
HasSlot(cs, c) == \E i \in 1..Len(PathUp(cs, c)) : cs[PathUp(cs, c)[i]].bound

\* the nearest self-or-ancestor of c that does
Nearest(cs, c) ==
    LET p == PathUp(cs, c)
        i == CHOOSE i \in 1..Len(p) :
                cs[p[i]].bound /\ \A j \in 1..(i - 1) : ~cs[p[j]].bound
    IN p[i]

\* the outcome fields of a call
Outcome(r) == [panicked |-> r.panicked, n |-> r.n, sink |-> r.sink, rec |-> r.rec]

\* what the engine does with the call of last when it is made on logger l
Delegated(l) ==
    IF last.op = "LogAttrs" THEN LoggerLogAttrs(l, last.level, "msg", CallAttrs)
    ELSE LoggerLog(l, last.level, "msg", CallArgs)

LevelOf(op) ==
    CASE op = "Debug" -> LevelDebug
      [] op = "Info" -> LevelInfo
      [] op = "Warn" -> LevelWarn
      [] op = "Error" -> LevelError

\* ------------------------------------------------------------------ claims

C1_Fallback ==
    /\ last.op = "init" => defaultLogger = Baseline
    /\ last.op = "SetDefault" => defaultLogger = last.logger
    /\ \A c \in Ctxs : ~HasSlot(ctxs, c) => loggerFromContext(c) = defaultLogger
    /\ (last.op \in EmitOps /\ ~HasSlot(ctxs, last.ctx)) =>
            Outcome(last) = Delegated(defaultLogger)
    /\ (last.op \in {"Debug", "Info", "Warn", "Error"}) => last.level = LevelOf(last.op)
    /\ (last.op = "Enabled" /\ ~HasSlot(ctxs, last.ctx)) =>
            /\ last.panicked = LoggerEnabled(defaultLogger, last.level).panicked
            /\ last.ret = LoggerEnabled(defaultLogger, last.level).ret

C1_Replace ==
    last'.op = "SetDefault" =>
        \A c \in Ctxs :
            LoggerFrom(ctxs', defaultLogger', c) =
                IF HasSlot(ctxs, c) THEN loggerFromContext(c) ELSE last'.logger

\* C1: a context with no bound logger on itself or any ancestor resolves to
\* the logger of the most recent SetDefault (the baseline before any), and
\* every emitting call and Enabled on it is the default logger's; a
\* SetDefault moves every unbound context to its argument and leaves the
\* logger of every bound context as it was.
C1_DefaultFallback == []C1_Fallback /\ [][C1_Replace]_vars

C1_Witness ==
    /\ last.op \in EmitOps /\ last.n = 1 /\ last.sink = "buf1"
    /\ ~HasSlot(ctxs, last.ctx)
    /\ \E c \in Ctxs : ctxs[c].bound /\ ctxs[c].logger = Buf2

\* C2: a record goes to the sink of the logger resolved for the context it
\* was emitted on, to that sink only and at most once, whatever other
\* contexts and loggers exist.
C2_Isolation ==
    last.op \in EmitOps =>
        /\ last.n \in {0, 1}
        /\ last.n = 1 =>
             LET l == IF HasSlot(ctxs, last.ctx)
                      THEN ctxs[Nearest(ctxs, last.ctx)].logger ELSE defaultLogger
             IN ~l.nil /\ last.sink = l.sink /\ last.rec.msg = "msg"
        /\ last.n = 0 => last.sink = "" /\ last.rec = NoRec

\* two contexts of one parent, bound to loggers with distinct sinks, and a
\* record emitted on the second reaching its sink
C2_Witness ==
    /\ Len(ctxs) >= 3
    /\ ctxs[2].bound /\ ctxs[3].bound
    /\ ctxs[2].parent = ctxs[3].parent
    /\ ~ctxs[2].logger.nil /\ ~ctxs[3].logger.nil
    /\ ctxs[2].logger.sink # ctxs[3].logger.sink
    /\ last.op \in EmitOps /\ last.ctx = 3 /\ last.n = 1

\* C3: every context resolves to a non-nil logger and no call fails.
C3_AlwaysResolvable ==
    /\ \A c \in Ctxs : ~loggerFromContext(c).nil
    /\ ~last.panicked

C4_Step ==
    Len(ctxs') > Len(ctxs) =>
        \A c \in Ctxs :
            /\ ctxs'[c] = ctxs[c]
            /\ LoggerFrom(ctxs', defaultLogger', c) = loggerFromContext(c)
            /\ \A lv \in Levels :
                  /\ LoggerLog(LoggerFrom(ctxs', defaultLogger', c), lv, "msg", CallArgs)
                        = LogResult(c, lv, "msg", CallArgs)
                  /\ LoggerEnabled(LoggerFrom(ctxs', defaultLogger', c), lv)
                        = EnabledResult(c, lv)

\* C4: a derivation leaves every existing context as it was: the same node,
\* the same resolved logger (attributes and groups included) and the same
\* outcome of every emission and Enabled call on it.
C4_NonMutation == [][C4_Step]_vars

\* a parent with two derived children, emitted on after the derivations
C4_Witness ==
    /\ Len(ctxs) >= 3
    /\ ctxs[2].parent = 1 /\ ctxs[3].parent = 1
    /\ ctxs[2].bound /\ ctxs[3].bound
    /\ ctxs[2].logger.attrs # <<>>
    /\ ctxs[3].logger.groups # <<>>
    /\ last.op \in EmitOps /\ last.ctx = 1 /\ last.n = 1 /\ Len(last.rec.attrs) = 1

C7_Gate ==
    LET l == IF HasSlot(ctxs, last.ctx)
             THEN ctxs[Nearest(ctxs, last.ctx)].logger ELSE defaultLogger
    IN /\ (last.op = "Enabled" /\ ~l.nil) =>
             ~last.panicked /\ last.ret = (last.level >= l.level)
       /\ last.op = "Enabled" => last.n = 0 /\ last.rec = NoRec
       /\ (last.op \in EmitOps /\ ~l.nil) =>
             /\ ~last.panicked
             /\ last.n = IF last.level >= l.level THEN 1 ELSE 0
             /\ last.n = 1 => last.sink = l.sink /\ last.rec.level = last.level

C7_EnabledPure ==
    last'.op = "Enabled" => UNCHANGED <<defaultLogger, ctxs>>

\* C7: on a context whose resolved logger has a threshold, Enabled is false
\* below it and true at or above it; an emission below it hands the sink no
\* record and one at or above it exactly one; Enabled hands over none and
\* changes neither the default logger nor any context.
C7_LevelGating == []C7_Gate /\ [][C7_EnabledPure]_vars

\* Enabled answered false on a context bound to the Warn logger
C7_Witness ==
    /\ last.op = "Enabled" /\ last.level = LevelInfo /\ ~last.ret /\ ~last.panicked
    /\ HasSlot(ctxs, last.ctx)
    /\ ctxs[Nearest(ctxs, last.ctx)].logger = Buf2

\* C9: loggerFromContext returns what the nearest self-or-ancestor stores
\* under contextKey{}, the default logger when none stores anything; every
\* parent was made before its child, so the walk ends.
C9_NearestBinding ==
    \A c \in Ctxs :
        /\ ctxs[c].parent < c
        /\ Len(PathUp(ctxs, c)) <= c
        /\ HasSlot(ctxs, c) => loggerFromContext(c) = ctxs[Nearest(ctxs, c)].logger
        /\ ~HasSlot(ctxs, c) => loggerFromContext(c) = defaultLogger

\* a context that stores nothing itself under a bound parent whose logger
\* is not the default
C9_Witness ==
    \E c \in Ctxs :
        /\ ~ctxs[c].bound /\ ctxs[c].parent > 1
        /\ ctxs[ctxs[c].parent].bound
        /\ ctxs[ctxs[c].parent].logger # defaultLogger
        /\ last.op \in EmitOps /\ last.ctx = c

C10_Step ==
    /\ (last'.op \in {"With", "WithAttrs", "WithGroup"} /\ ~last'.panicked) =>
          LET new == ctxs'[last'.ctx]
              p == new.parent
          IN /\ new.bound
             /\ ~HasSlot(ctxs, p) =>
                   /\ new.logger.nil = defaultLogger.nil
                   /\ new.logger.sink = defaultLogger.sink
                   /\ new.logger.level = defaultLogger.level
    /\ last'.op = "SetDefault" =>
          \A c \in Ctxs :
             IF HasSlot(ctxs, c)
             THEN \A lv \in Levels :
                    /\ LoggerLog(LoggerFrom(ctxs', defaultLogger', c), lv, "msg", CallArgs)
                          = LogResult(c, lv, "msg", CallArgs)
                    /\ LoggerEnabled(LoggerFrom(ctxs', defaultLogger', c), lv)
                          = EnabledResult(c, lv)
             ELSE LoggerFrom(ctxs', defaultLogger', c) = defaultLogger'

\* C10: With, WithAttrs and WithGroup on a context with no bound logger bind
\* a logger derived from the default of that moment; a later SetDefault
\* changes no emission or Enabled result through a bound context, and moves
\* the unbound ones to the new default.
C10_DefaultCaptured == [][C10_Step]_vars

\* a context derived from the unbound background while the baseline was the
\* default still writes to standard error after the default was replaced
C10_Witness ==
    /\ defaultLogger = Buf1
    /\ last.op \in EmitOps /\ last.n = 1 /\ last.sink = "stderr"
    /\ ctxs[last.ctx].bound /\ ctxs[last.ctx].parent = 1
    /\ ctxs[last.ctx].logger.attrs # <<>>

\* ------------------------------------------- claims about attributes
\* k1, v1, k2, v2, ... read as the attributes k1=v1, k2=v2, ...
PairsOf(args) ==
    [i \in 1..(Len(args) \div 2) |->
        Attr(args[2 * i - 1].str, StringValue(args[2 * i].str))]

\* the attributes of the With calls hist[i] .. hist[j - 1], in call order
RECURSIVE RunPairs(_, _, _)
RunPairs(h, i, j) ==
    IF i >= j THEN <<>> ELSE PairsOf(h[i].args) \o RunPairs(h, i + 1, j)

\* C5: after a run of With calls from context i to context j, a record
\* emitted through j carries what one through i carries and then every
\* k=v of the run, in call order; the record through i carries none of them.
C5_AttributeAccumulation ==
    /\ \A i \in Ctxs : \A j \in i..Len(ctxs) :
          (\A m \in i..(j - 1) : hist[m].op = "With") =>
             LET ri == LogResult(i, LevelError, "msg", <<>>).rec
                 rj == LogResult(j, LevelError, "msg", <<>>).rec
             IN rj.attrs = ri.attrs \o
                   QualifyAll(loggerFromContext(i).groups, RunPairs(hist, i, j))
    /\ last.op = "Info" =>
          /\ last.n = 1 /\ last.rec.msg = "msg"
          /\ \A i \in 1..last.ctx :
                (\A m \in i..(last.ctx - 1) : hist[m].op = "With") =>
                   last.rec.attrs =
                      loggerFromContext(i).attrs \o
                      QualifyAll(loggerFromContext(i).groups,
                                 RunPairs(hist, i, last.ctx) \o CallAttrs)

\* With(k1, v1) then With(k2, v2) from the background, and a record through
\* the last context with k1=v1, k2=v2 and the call's own k3=v3
C5_Witness ==
    /\ Len(ctxs) >= 3
    /\ hist[1] = Made("With", K1V1, <<>>, "")
    /\ hist[2] = Made("With", K2V2, <<>>, "")
    /\ last.op = "Info" /\ last.ctx = 3 /\ last.n = 1
    /\ [i \in 1..3 |-> last.rec.attrs[i].key] = <<"k1", "k2", "k3">>

\* the groups open after the first n derivations: every WithGroup name
RECURSIVE NaiveGroups(_, _)
NaiveGroups(h, n) ==
    IF n = 0 THEN <<>>
    ELSE IF h[n].op = "WithGroup" THEN Append(NaiveGroups(h, n - 1), h[n].group)
    ELSE NaiveGroups(h, n - 1)

\* the same, an empty name opening nothing
RECURSIVE GroupsAfter(_, _)
GroupsAfter(h, n) ==
    IF n = 0 THEN <<>>
    ELSE IF h[n].op = "WithGroup" /\ h[n].group # ""
         THEN Append(GroupsAfter(h, n - 1), h[n].group)
    ELSE GroupsAfter(h, n - 1)

\* the attributes pre-bound by the first n derivations, each under the
\* groups opened before it
RECURSIVE BoundAfter(_, _)
BoundAfter(h, n) ==
    IF n = 0 THEN <<>>
    ELSE BoundAfter(h, n - 1) \o
         QualifyAll(GroupsAfter(h, n - 1),
                    IF h[n].op = "With" THEN PairsOf(h[n].args) ELSE h[n].attrs)

C8_WithAttrsIsWith ==
    /\ Len(ctxs) >= 2 =>
          /\ last.op = "WithAttrs" => ~last.panicked /\ last.ctx = 2
          /\ ctxs[2].bound
          /\ ctxs[2].logger = [Baseline EXCEPT !.attrs = QualifyAll(<<>>, hist[1].attrs)]
    /\ Len(ctxs) >= 3 =>
          /\ ctxs[3].logger = ctxs[2].logger
          /\ \A lv \in Levels :
                LogResult(3, lv, "msg", CallArgs) = LogResult(2, lv, "msg", CallArgs)
          /\ (last.op = "Info" /\ last.ctx = 2) =>
                Outcome(last) = LogResult(3, LevelInfo, "msg", CallArgs)

\* two attributes, a group and an integer, bound both ways and emitted
C8_Witness ==
    /\ Len(ctxs) = 3
    /\ hist[1].attrs = <<Attr("k1", GroupValue(<<InnerAttr>>)), Attr("", Int64Value(7))>>
    /\ last.op = "Info" /\ last.ctx = 2 /\ last.n = 1
    /\ Len(last.rec.attrs) = 3

====
